---- MODULE Spec2Model ----
(***************************************************************************)
(* SafePublish (src/SafePublish.h): a guard around PubSubClient::publish   *)
(* that rejects a message that will not fit the client's buffer, counts    *)
(* successes and failures, and sizes the buffer by a power-of-two rule.    *)
(*                                                                         *)
(* Strings are modelled by their strlen, the only thing the guard reads of *)
(* them.  The PubSubClient behind the reference _client is an external     *)
(* library: it is modelled by what the guard reads of it (getBufferSize,   *)
(* connected, the result of publish) and what it writes (setBufferSize).   *)
(* The Serial log is modelled by the line kind and the numbers printed.    *)
(***************************************************************************)
EXTENDS Integers, FiniteSets, Sequences, TLC

(***************************************************************************)
(* Bounds of the model.                                                    *)
(***************************************************************************)
\* Width in bits of `unsigned long` in the model.  The ESP32 build has 32;
\* the counters behave the same at every width (++ wraps modulo 2^w), and a
\* small width lets the wrap-around be reached.
CounterBits == 2

\* nextPowerOf2 alone is exercised on every n in -SizingBelow .. SizingMax.
SizingBelow == 200
SizingMax == 8400

(***************************************************************************)
(* Program constants.                                                      *)
(***************************************************************************)
MQTT_OVERHEAD == 10
\* PubSubClient's buffer size when setBufferSize was never called.
DefaultBufferSize == 256

CounterModulus == 2 ^ CounterBits

(***************************************************************************)
(* Inputs.                                                                 *)
(***************************************************************************)
\* <<strlen(topic), strlen(payload)>> of the messages published.
Messages ==
    { <<0, 0>>, <<1, 100>>, <<1, 245>>, <<1, 246>>, <<1, 300>>,
      <<50, 1000>>, <<50, 8100>>, <<50, 8132>>, <<50, 8133>>,
      <<1000, 20000>> }

\* <<maxTopicLen, maxPayloadLen>> given to autoConfigureBuffer (plain ints).
Configs ==
    { <<-100, 0>>, <<1, 246>>, <<50, 1000>>, <<50, 8100>>, <<50, 8132>>,
      <<50, 8133>>, <<1000, 20000>> }

\* Sizes the application gives the client directly (mqtt_client.setBufferSize).
BufferSizes == { 256, 311, 512, 2048, 8192, 21010 }

\* Arguments on which nextPowerOf2 is probed besides the dense range.
SizingRange == (0 - SizingBelow) .. SizingMax

SizingProbes == { -2147483647, -20000, -1, 0, 127, 128, 129, 8191, 8192, 8193,
                  21080, 65535, 2147483647 }

VARIABLES
    successCount,   \* unsigned long _successCount
    failCount,      \* unsigned long _failCount
    client,         \* PubSubClient &_client: [bufferSize, connected, accepts]
    call,           \* the latest call of the guard: arguments, return, log line
    cfg             \* the autoConfigureBuffer call whose buffer size still stands

vars == <<successCount, failCount, client, call, cfg>>

NoCall ==
    [ seq |-> 0, op |-> "none", topicLen |-> 0, payloadLen |-> 0, n |-> 0,
      returned |-> FALSE, value |-> 0, log |-> "none", delegated |-> FALSE,
      totalSize |-> 0, bufferSize |-> 0, suggested |-> 0,
      rate |-> FALSE, denominator |-> 0 ]

NoConfig == [ set |-> FALSE, maxTopicLen |-> 0, maxPayloadLen |-> 0, bufSize |-> 0 ]

\* A record of a call that follows `call`: the parity bit seq flips with every
\* call, so that a call is a step that changes call.seq.
Called(op) == [ NoCall EXCEPT !.seq = 1 - call.seq, !.op = op ]

(***************************************************************************)
(* Pure functions of the class.                                            *)
(***************************************************************************)
\* _successCount++ / _failCount++ on an unsigned long: modulo 2^w.
Inc(c) == (c + 1) % CounterModulus

TotalSizeNoOverhead(topicLen, payloadLen) == topicLen + payloadLen

\* int totalSize = topicLen + payloadLen + MQTT_OVERHEAD;
TotalSize(topicLen, payloadLen) == topicLen + payloadLen + MQTT_OVERHEAD

OverflowsAtEqual(totalSize, bufferSize) == totalSize >= bufferSize

\* if (totalSize > bufferSize)
Overflows(totalSize, bufferSize) == totalSize > bufferSize

\* int p = 128; while (p < n && p < 8192) p *= 2; return p;
RECURSIVE nextPowerOf2Loop(_, _)
nextPowerOf2Loop(p, n) ==
    IF p < n /\ p < 8192 THEN nextPowerOf2Loop(p * 2, n) ELSE p

\* Variants of the loop, each a slip of one token of its condition.
RECURSIVE LoopPastEqual(_, _)
LoopPastEqual(p, n) ==
    IF p <= n /\ p < 8192 THEN LoopPastEqual(p * 2, n) ELSE p

RECURSIVE LoopCeiling16384(_, _)
LoopCeiling16384(p, n) ==
    IF p < n /\ p < 16384 THEN LoopCeiling16384(p * 2, n) ELSE p

RECURSIVE LoopRoundDown(_, _)
LoopRoundDown(p, n) ==
    IF p * 2 < n /\ p < 8192 THEN LoopRoundDown(p * 2, n) ELSE p

nextPowerOf2PastEqual(n) == LoopPastEqual(128, n)

nextPowerOf2Ceiling16384(n) == LoopCeiling16384(128, n)

nextPowerOf2RoundDown(n) == LoopRoundDown(128, n)

nextPowerOf2(n) == nextPowerOf2Loop(128, n)

NeededLengthsOnly(maxTopicLen, maxPayloadLen) == maxTopicLen + maxPayloadLen

\* int needed = maxTopicLen + maxPayloadLen + MQTT_OVERHEAD + 50;
Needed(maxTopicLen, maxPayloadLen) ==
    maxTopicLen + maxPayloadLen + MQTT_OVERHEAD + 50

VerdictNoConnectionCheck(totalSize, cl) ==
    IF Overflows(totalSize, cl.bufferSize) THEN "overflow"
    ELSE IF cl.connected /\ cl.accepts THEN "published"
    ELSE "failed"

\* The branch publish takes: the pre-flight check, the connection check, and
\* the result of the underlying publish.
Verdict(totalSize, cl) ==
    IF Overflows(totalSize, cl.bufferSize) THEN "overflow"
    ELSE IF ~cl.connected THEN "notConnected"
    ELSE IF cl.accepts THEN "published"
    ELSE "failed"

(***************************************************************************)
(* State after construction: SafePublish(PubSubClient &client).            *)
(***************************************************************************)
Init ==
    /\ successCount = 0
    /\ failCount = 0
    /\ client = [ bufferSize |-> DefaultBufferSize, connected |-> FALSE,
                  accepts |-> FALSE ]
    /\ call = NoCall
    /\ cfg = NoConfig

(***************************************************************************)
(* Operations of the guard.                                                *)
(***************************************************************************)
publish(topicLen, payloadLen) ==
    LET totalSize == TotalSize(topicLen, payloadLen)
        bufferSize == client.bufferSize
        verdict == Verdict(totalSize, client)
        sent == verdict = "published"
    IN  /\ successCount' = IF verdict = "published" THEN Inc(successCount)
                           ELSE successCount
        /\ failCount' = IF verdict = "published" THEN failCount
                        ELSE Inc(failCount)
        /\ call' = [ Called("publish") EXCEPT
                        !.topicLen = topicLen,
                        !.payloadLen = payloadLen,
                        !.totalSize = totalSize,
                        !.bufferSize = bufferSize,
                        !.log = verdict,
                        !.suggested = IF verdict = "overflow"
                                      THEN nextPowerOf2(totalSize + 50) ELSE 0,
                        !.delegated = verdict \in {"published", "failed"},
                        !.returned = sent ]
        /\ UNCHANGED <<client, cfg>>

autoConfigureBuffer(maxTopicLen, maxPayloadLen) ==
    LET needed == Needed(maxTopicLen, maxPayloadLen)
        bufSize == nextPowerOf2(needed)
    IN  /\ client' = [ client EXCEPT !.bufferSize = bufSize ]
        /\ call' = [ Called("autoConfigureBuffer") EXCEPT
                        !.topicLen = maxTopicLen,
                        !.payloadLen = maxPayloadLen,
                        !.log = "configured",
                        !.value = bufSize ]
        /\ cfg' = [ set |-> TRUE, maxTopicLen |-> maxTopicLen,
                    maxPayloadLen |-> maxPayloadLen, bufSize |-> bufSize ]
        /\ UNCHANGED <<successCount, failCount>>

printStats ==
    /\ call' = [ Called("printStats") EXCEPT
                    !.log = "stats",
                    !.rate = failCount > 0,
                    !.denominator = IF failCount > 0
                                    THEN (successCount + failCount) % CounterModulus
                                    ELSE 0 ]
    /\ UNCHANGED <<successCount, failCount, client, cfg>>

getSuccessCount ==
    /\ call' = [ Called("getSuccessCount") EXCEPT !.value = successCount ]
    /\ UNCHANGED <<successCount, failCount, client, cfg>>

getFailCount ==
    /\ call' = [ Called("getFailCount") EXCEPT !.value = failCount ]
    /\ UNCHANGED <<successCount, failCount, client, cfg>>

resetStats ==
    /\ successCount' = 0
    /\ failCount' = 0
    /\ call' = Called("resetStats")
    /\ UNCHANGED <<client, cfg>>

(***************************************************************************)
(* The client's side: the network and the application act on the           *)
(* PubSubClient between two calls of the guard.                            *)
(***************************************************************************)
ClientLinkChange(connected, accepts) ==
    /\ client' = [ client EXCEPT !.connected = connected, !.accepts = accepts ]
    /\ UNCHANGED <<successCount, failCount, call, cfg>>

ClientSetBufferSize(size) ==
    /\ client' = [ client EXCEPT !.bufferSize = size ]
    /\ cfg' = NoConfig
    /\ UNCHANGED <<successCount, failCount, call>>

Next ==
    \/ \E m \in Messages : publish(m[1], m[2])
    \/ \E c \in Configs : autoConfigureBuffer(c[1], c[2])
    \/ printStats
    \/ getSuccessCount
    \/ getFailCount
    \/ resetStats
    \/ \E connected \in BOOLEAN, accepts \in BOOLEAN :
          ClientLinkChange(connected, accepts)
    \/ \E size \in BufferSizes : ClientSetBufferSize(size)

Spec == Init /\ [][Next]_vars

(***************************************************************************)
(* nextPowerOf2 alone: the private sizing rule applied to an argument, over *)
(* a dense range of arguments and a few far ones.                          *)
(***************************************************************************)
InitSizing ==
    /\ successCount = 0
    /\ failCount = 0
    /\ client = [ bufferSize |-> DefaultBufferSize, connected |-> FALSE,
                  accepts |-> FALSE ]
    /\ \E n \in SizingRange : call = [ NoCall EXCEPT !.op = "input", !.n = n ]
    /\ cfg = NoConfig

\* The arguments of the next application: the pending input first, then the
\* successor of the last argument or any probe.
SizingArguments ==
    IF call.op = "input" THEN { call.n }
    ELSE (IF call.n < SizingMax THEN { call.n + 1 } \cap SizingRange ELSE {})
         \cup SizingProbes

nextPowerOf2Call(n) ==
    /\ call' = [ Called("nextPowerOf2") EXCEPT !.n = n, !.value = nextPowerOf2(n) ]
    /\ UNCHANGED <<successCount, failCount, client, cfg>>

NextSizing == \E n \in SizingArguments : nextPowerOf2Call(n)

SpecSizing == InitSizing /\ [][NextSizing]_vars

(***************************************************************************)
(* Properties.                                                             *)
(***************************************************************************)
\* This step is a call of operation op of the guard.
IsCall(op) == call'.seq # call.seq /\ call'.op = op

\* The powers of two in [128, 8192].
PowersOfTwo == { q \in 128..8192 : \E k \in 7..13 : q = 2 ^ k }

\* C1: a publish whose len(topic) + len(payload) + 10 exceeds the client's
\* current buffer size returns false, does not invoke the client's publish,
\* adds exactly 1 to failCount (as ++ on the unsigned counter does) and leaves
\* successCount alone, whatever the connection state.
C1_OversizeRejected ==
    [][ ( /\ IsCall("publish")
          /\ call'.topicLen + call'.payloadLen + 10 > client.bufferSize )
        => /\ call'.returned = FALSE
           /\ call'.delegated = FALSE
           /\ failCount' = (failCount + 1) % (2 ^ CounterBits)
           /\ successCount' = successCount ]_vars

\* C1 witness: the 311-byte message of the spec's scenario was rejected by a
\* 256-byte buffer: first failure, no success.
C1_Witness ==
    /\ call.op = "publish"
    /\ call.topicLen = 1 /\ call.payloadLen = 300
    /\ call.bufferSize = 256
    /\ call.log = "overflow"
    /\ ~call.returned
    /\ failCount = 1 /\ successCount = 0

\* C2: a publish whose len(topic) + len(payload) + 10 is at most the buffer
\* size (equality included), with the client connected and its publish
\* returning true, returns true, adds exactly 1 to successCount and leaves
\* failCount alone.
C2_FittingPublished ==
    [][ ( /\ IsCall("publish")
          /\ call'.topicLen + call'.payloadLen + 10 <= client.bufferSize
          /\ client.connected
          /\ client.accepts )
        => /\ call'.returned = TRUE
           /\ call'.delegated = TRUE
           /\ successCount' = (successCount + 1) % (2 ^ CounterBits)
           /\ failCount' = failCount ]_vars

\* C2 witness: a message of exactly the buffer size was published.
C2_Witness ==
    /\ call.op = "publish"
    /\ call.topicLen + call.payloadLen + 10 = call.bufferSize
    /\ call.returned
    /\ successCount = 1 /\ failCount = 0

\* C3: each failure kind of publish (oversize; fits, not connected; fits,
\* connected, the client's publish returns false) returns false and adds
\* exactly 1 to failCount with successCount unchanged; when not connected
\* the client's publish is not invoked.
C3_FailureKinds ==
    [][ IsCall("publish") =>
        LET fits == call'.topicLen + call'.payloadLen + 10 <= client.bufferSize
            failed == /\ call'.returned = FALSE
                      /\ failCount' = (failCount + 1) % (2 ^ CounterBits)
                      /\ successCount' = successCount
        IN  /\ ~fits => failed
            /\ (fits /\ ~client.connected) => (failed /\ ~call'.delegated)
            /\ (fits /\ client.connected /\ ~client.accepts) => failed ]_vars

\* C3 witness: a fitting message was refused for want of a connection, after
\* an earlier failure.
C3_Witness ==
    /\ call.op = "publish"
    /\ call.totalSize <= call.bufferSize
    /\ call.log = "notConnected"
    /\ ~call.delegated
    /\ failCount = 2 /\ successCount = 0

\* C4: successCount and failCount never decrease except at a resetStats
\* call, which sets both to 0; a publish changes at most one of the two.
C4_CountersMonotone ==
    [][ /\ (successCount' < successCount \/ failCount' < failCount)
            => IsCall("resetStats")
        /\ IsCall("resetStats") => (successCount' = 0 /\ failCount' = 0)
        /\ IsCall("publish")
            => ~(successCount' # successCount /\ failCount' # failCount) ]_vars

\* C8: printStats computes the failure percentage only when failCount is
\* nonzero, and whenever it does the denominator successCount + failCount,
\* taken modulo 2^w, is nonzero.
C8_DenominatorNonZero ==
    [][ (IsCall("printStats") /\ call'.rate)
        => /\ failCount > 0
           /\ call'.denominator # 0 ]_vars

\* C5: nextPowerOf2(n) is a power of two in [128, 8192] for every integer n,
\* the smallest of them that is >= n when n <= 8192, and 8192 when n > 8192;
\* it is non-decreasing in n.
C5_NextPowerOf2 ==
    [][ IsCall("nextPowerOf2") =>
        LET n == call'.n
            r == call'.value
        IN  /\ r \in PowersOfTwo
            /\ n <= 8192 => (r >= n /\ \A q \in PowersOfTwo : q >= n => r <= q)
            /\ n > 8192 => r = 8192
            /\ (call.op = "nextPowerOf2" /\ call.n <= n) => call.value <= r
            /\ (call.op = "nextPowerOf2" /\ call.n >= n) => call.value >= r ]_vars

\* C5 witness: an argument just above the ceiling was given 8192.
C5_Witness ==
    /\ call.op = "nextPowerOf2"
    /\ call.n = 8193
    /\ call.value = 8192

\* C6: autoConfigureBuffer(maxTopicLen, maxPayloadLen) returns
\* nextPowerOf2(maxTopicLen + maxPayloadLen + 10 + 50), gives the client that
\* buffer size, which the next publish compares against, and leaves both
\* counters alone; (50, 1000) gives 2048 and (1000, 20000) gives 8192.
C6_AutoConfigure ==
    [][ /\ IsCall("autoConfigureBuffer") =>
            /\ call'.value = nextPowerOf2(call'.topicLen + call'.payloadLen + 10 + 50)
            /\ client'.bufferSize = call'.value
            /\ successCount' = successCount
            /\ failCount' = failCount
            /\ (call'.topicLen = 50 /\ call'.payloadLen = 1000) => call'.value = 2048
            /\ (call'.topicLen = 1000 /\ call'.payloadLen = 20000) => call'.value = 8192
        /\ (IsCall("publish") /\ cfg.set) =>
            /\ call'.bufferSize = cfg.bufSize
            /\ call'.log = "overflow"
                 <=> call'.topicLen + call'.payloadLen + 10 > cfg.bufSize ]_vars

\* C6 witness: autoConfigureBuffer(50, 1000) returned 2048 and the client holds
\* it, with counters that an earlier failure had moved.
C6_Witness ==
    /\ call.op = "autoConfigureBuffer"
    /\ call.topicLen = 50 /\ call.payloadLen = 1000
    /\ call.value = 2048
    /\ client.bufferSize = 2048
    /\ failCount = 1 /\ successCount = 0

\* A publish of exactly the lengths the standing autoConfigureBuffer call was
\* given.
IsPublishOfConfigured ==
    /\ IsCall("publish")
    /\ cfg.set
    /\ call'.topicLen = cfg.maxTopicLen
    /\ call'.payloadLen = cfg.maxPayloadLen

\* C7 as stated: whenever needed = maxTopicLen + maxPayloadLen + 60 exceeds
\* 8192, autoConfigureBuffer returns 8192 and a following publish of those
\* lengths is rejected as oversize without invoking the client's publish.
C7_NeededOver8192Overflows ==
    [][ /\ ( /\ IsCall("autoConfigureBuffer")
             /\ call'.topicLen + call'.payloadLen + 60 > 8192 )
           => call'.value = 8192
        /\ ( /\ IsPublishOfConfigured
             /\ cfg.maxTopicLen + cfg.maxPayloadLen + 60 > 8192 )
           => /\ call'.log = "overflow"
              /\ call'.returned = FALSE
              /\ call'.delegated = FALSE ]_vars

\* C7 amended: whenever needed exceeds 8192, autoConfigureBuffer returns 8192;
\* a following publish of those lengths is rejected as oversize (false, the
\* client's publish not invoked) exactly when maxTopicLen + maxPayloadLen + 10
\* exceeds 8192, that is needed > 8242: up to there the message still fits.
C7_SizeOver8192Overflows ==
    [][ /\ ( /\ IsCall("autoConfigureBuffer")
             /\ call'.topicLen + call'.payloadLen + 60 > 8192 )
           => call'.value = 8192
        /\ ( /\ IsPublishOfConfigured
             /\ cfg.maxTopicLen + cfg.maxPayloadLen + 60 > 8192 )
           => IF cfg.maxTopicLen + cfg.maxPayloadLen + 10 > 8192
              THEN /\ call'.log = "overflow"
                   /\ call'.returned = FALSE
                   /\ call'.delegated = FALSE
              ELSE call'.log # "overflow" ]_vars

\* C7 witness: after autoConfigureBuffer(50, 8133) returned 8192, the publish
\* of a 50-byte topic and an 8133-byte payload was rejected as oversize.
C7_Witness ==
    /\ cfg.set
    /\ cfg.maxTopicLen = 50 /\ cfg.maxPayloadLen = 8133
    /\ cfg.bufSize = 8192
    /\ call.op = "publish"
    /\ call.topicLen = 50 /\ call.payloadLen = 8133
    /\ call.log = "overflow"

\* A publish within the lengths the standing autoConfigureBuffer call was
\* given, those being non-negative.
IsPublishWithinConfigured ==
    /\ IsCall("publish")
    /\ cfg.set
    /\ cfg.maxTopicLen >= 0 /\ cfg.maxPayloadLen >= 0
    /\ call'.topicLen <= cfg.maxTopicLen
    /\ call'.payloadLen <= cfg.maxPayloadLen

\* C9 as stated: after autoConfigureBuffer with non-negative arguments, and
\* no later change of the client's buffer size, no publish within those
\* lengths is rejected as oversize, whatever the arguments were.
C9_ConfiguredNeverOversize ==
    [][ IsPublishWithinConfigured => call'.log # "overflow" ]_vars

\* C9 amended: the same, for arguments with
\* maxTopicLen + maxPayloadLen + 10 <= 8192.
C9_ConfiguredUpTo8192NeverOversize ==
    [][ ( /\ IsPublishWithinConfigured
          /\ cfg.maxTopicLen + cfg.maxPayloadLen + 10 <= 8192 )
        => call'.log # "overflow" ]_vars

\* C9 witness: after autoConfigureBuffer(50, 8132), whose message size is
\* exactly 8192, the largest message it was sized for reached the connection
\* check.
C9_Witness ==
    /\ cfg.set
    /\ cfg.maxTopicLen = 50 /\ cfg.maxPayloadLen = 8132
    /\ call.op = "publish"
    /\ call.topicLen = 50 /\ call.payloadLen = 8132
    /\ call.bufferSize = 8192
    /\ call.log = "notConnected"

\* This publish repeats the rejected publish recorded in call, the client's
\* buffer having been set to the size that rejection suggested.
IsRepeatAtSuggestedSize ==
    /\ call.op = "publish"
    /\ call.log = "overflow"
    /\ client.bufferSize = call.suggested
    /\ IsCall("publish")
    /\ call'.topicLen = call.topicLen
    /\ call'.payloadLen = call.payloadLen

\* C10 as stated: the size suggested on an oversize rejection,
\* nextPowerOf2(totalSize + 50), is at least totalSize, and with the client's
\* buffer set to it the same publish is not rejected as oversize again.
C10_SuggestionFits ==
    [][ /\ (IsCall("publish") /\ call'.log = "overflow")
           => /\ call'.suggested = nextPowerOf2(call'.totalSize + 50)
              /\ call'.suggested >= call'.totalSize
        /\ IsRepeatAtSuggestedSize => call'.log # "overflow" ]_vars

\* C10 amended: the same, for a rejected message with totalSize <= 8192.
C10_SuggestionFitsUpTo8192 ==
    [][ /\ (IsCall("publish") /\ call'.log = "overflow")
           => /\ call'.suggested = nextPowerOf2(call'.totalSize + 50)
              /\ call'.totalSize <= 8192 => call'.suggested >= call'.totalSize
        /\ (IsRepeatAtSuggestedSize /\ call.totalSize <= 8192)
           => call'.log # "overflow" ]_vars

\* C10 witness: the 311-byte message, once rejected, was published after the
\* buffer was set to a suggested 512.
C10_Witness ==
    /\ call.op = "publish"
    /\ call.topicLen = 1 /\ call.payloadLen = 300
    /\ call.bufferSize = 512
    /\ call.returned
    /\ failCount = 1 /\ successCount = 1

====
